---------------------------- MODULE Spec2Model ----------------------------
(***************************************************************************)
(* Telemetry ingestion and alerting pipeline of the MFC backend:           *)
(*   services/alertService.js   (alert engine, offline watchdog)           *)
(*   services/mqttListener.js   (telemetry path of the message router)     *)
(*   validations/telemetryValidator.js                                     *)
(*   routes/api.js              (operator acknowledge / resolve)           *)
(*                                                                         *)
(* Handlers are async functions on one event loop.  Every await on the     *)
(* database is modelled by two steps: the database executing the request   *)
(* (Db...) and the continuation of the handler (Resume...), so handlers    *)
(* interleave exactly at the awaits.  Sensor values are in tenths of the   *)
(* unit (ph 7.0 is 70); times are in milliseconds.                         *)
(***************************************************************************)
EXTENDS Integers, Sequences, FiniteSets, TLC

VARIABLES
  activeKeys,   \* alertService.js: const activeKeys = new Set()
  alerts,       \* the Alert collection; a record's id is its position
  systemLogs,   \* the SystemLog collection: timestamps of stored readings
  now,          \* Date.now()
  tasks,        \* handler invocations in flight, one per slot
  emitted,      \* io.emit: number of broadcasts per (event, sensor)
  delivered,    \* number of telemetry messages received so far
  crashed,      \* an error escaped a unit of work (unhandled rejection)
  epoch,        \* history: per key, the fire calls since a clean start
  routed,       \* the message the router received in the last step, if any
  ioUp,         \* the Socket.io server accepts io.emit (it throws otherwise)
  published,    \* command messages published and not yet echoed by the broker
  lastAccepted  \* history: when the last accepted telemetry packet arrived

vars == <<activeKeys, alerts, systemLogs, now, tasks, emitted, delivered,
          crashed, epoch, routed, ioUp, published, lastAccepted>>

\* the state that the steps of a handler after its first await, the operator
\* routes and the clock leave alone
ioVars == <<ioUp, published, lastAccepted>>

---------------------------------------------------------------------------
(* Bounds *)

MaxAlerts == 2
MaxPackets == 2
MaxNow == 60001
MaxPublished == 1

Procs == {1, 2}

---------------------------------------------------------------------------
(* Program constants (scaled: sensor values in tenths, times in ms) *)

MAX_LATENCY_MS == 5000
OFFLINE_THRESHOLD_MS == 60000
WATCHDOG_INTERVAL_MS == 30000
PH_HARD_MAX == 140
VOLTAGE_MIN == -500
VOLTAGE_MAX == 500
PH_MIN == 65
PH_MAX == 85
TDS_MAX == 50000
TEMP_MIN == 100
TEMP_MAX == 400
FLOW_MIN == 5
FLOW_MAX == 100

---------------------------------------------------------------------------
(* JavaScript values of a packet field *)

Undef == [t |-> "undef", v |-> 0]
Null == [t |-> "null", v |-> 0]
Num(n) == [t |-> "num", v |-> n]
\* Strings: one that is neither a number nor a date, and the valve states
Str == [t |-> "str", v |-> 0]
OPEN == [t |-> "str", v |-> 1]
CLOSED == [t |-> "str", v |-> 2]
HALF_OPEN == [t |-> "str", v |-> 3]

Present(x) == x.t # "undef" /\ x.t # "null"

\* x < n and x > n with JavaScript's coercion of the left operand:
\* undefined becomes NaN (every comparison false), null becomes 0.
\* (Strings never reach a threshold rule: the validator rejects them.)
JsLt(x, n) ==
  CASE x.t = "num" -> x.v < n
    [] x.t = "null" -> 0 < n
    [] OTHER -> FALSE

JsGt(x, n) ==
  CASE x.t = "num" -> x.v > n
    [] x.t = "null" -> 0 > n
    [] OTHER -> FALSE

\* x.toFixed(d) throws a TypeError when x is undefined or null
ToFixedThrows(x) == x.t \in {"undef", "null"}

\* A parsed JSON value: shape ("object", "array", "null") and the fields
\* the pipeline reads
NoPayload ==
  [shape |-> "object", timestamp |-> Undef, ph |-> Undef, tds |-> Undef,
   temperature |-> Undef, flow_rate |-> Undef, salinity |-> Undef,
   conductivity |-> Undef, voltage |-> Undef, current |-> Undef,
   power |-> Undef, valve_status |-> Undef]

---------------------------------------------------------------------------
(* validations/telemetryValidator.js *)

\* (mutant) only undefined is skipped: null is compared like a number
SoftFailedNullCompared(p) ==
  (IF p.ph.t # "undef" /\ (JsLt(p.ph, PH_MIN) \/ JsGt(p.ph, PH_MAX))
     THEN <<"ph">> ELSE <<>>)
  \o (IF p.tds.t # "undef" /\ JsGt(p.tds, TDS_MAX) THEN <<"tds">> ELSE <<>>)

\* 5. Soft Gatekeeper: failed_parameters
SoftFailed(p) ==
  (IF Present(p.ph) /\ (JsLt(p.ph, PH_MIN) \/ JsGt(p.ph, PH_MAX))
     THEN <<"ph">> ELSE <<>>)
  \o (IF Present(p.tds) /\ JsGt(p.tds, TDS_MAX) THEN <<"tds">> ELSE <<>>)

\* return { valid: false, reason }
Rejected(reason) == [valid |-> FALSE, reason |-> reason, failed |-> <<>>]

\* (mutant) only the type is checked
NotNumber(x) == x.t # "num"

\* typeof x !== 'number' || x < 0
NotNumberAtLeastZero(x) == x.t # "num" \/ x.v < 0

\* (mutant) the required-field check is skipped
HasTimestampAlways(p) == TRUE

\* 'timestamp' in rawPayload
HasTimestamp(p) == p.timestamp.t # "undef"

\* isNaN(new Date(timestamp).getTime()): a string that is not a date
TimestampUnparseable(p) == p.timestamp.t = "str"

\* new Date(timestamp).getTime(); new Date(null) is the epoch
PacketTime(p) == p.timestamp.v

\* (mutant) a packet exactly MAX_LATENCY_MS old is stale
TooOldInclusive(latency) == latency >= MAX_LATENCY_MS

\* if (latency > MAX_LATENCY_MS)
TooOld(latency) == latency > MAX_LATENCY_MS

\* if (latency < -MAX_LATENCY_MS)
InFuture(latency) == latency < -MAX_LATENCY_MS

\* 4. Hard Gatekeeper: Latency Check, and 5. the soft gatekeeper
LatencyCheck(p, clock) ==
  IF TimestampUnparseable(p) THEN Rejected("Invalid timestamp format")
  ELSE LET latency == clock - PacketTime(p) IN
    IF TooOld(latency) THEN Rejected("Timestamp is too old (latency > 5s)")
    ELSE IF InFuture(latency) THEN Rejected("Timestamp is in the future")
    ELSE [valid |-> TRUE, reason |-> "", failed |-> SoftFailed(p)]

\* 3. Hard Gatekeeper: Physics Bounds & Data Types, then the latency check
PhysicsBounds(p, clock) ==
  IF Present(p.ph) /\ (p.ph.t # "num" \/ p.ph.v < 0 \/ p.ph.v > PH_HARD_MAX)
    THEN Rejected("ph must be a finite number between 0 and 14")
  ELSE IF Present(p.tds) /\ NotNumberAtLeastZero(p.tds)
    THEN Rejected("tds must be >= 0")
  ELSE IF Present(p.temperature) /\ NotNumberAtLeastZero(p.temperature)
    THEN Rejected("temperature must be >= 0")
  ELSE IF Present(p.flow_rate) /\ NotNumberAtLeastZero(p.flow_rate)
    THEN Rejected("flow_rate must be >= 0")
  ELSE IF Present(p.salinity) /\ NotNumberAtLeastZero(p.salinity)
    THEN Rejected("salinity must be >= 0")
  ELSE IF Present(p.conductivity) /\ NotNumberAtLeastZero(p.conductivity)
    THEN Rejected("conductivity must be >= 0")
  ELSE IF Present(p.voltage)
          /\ (p.voltage.t # "num" \/ p.voltage.v < VOLTAGE_MIN
              \/ p.voltage.v > VOLTAGE_MAX)
    THEN Rejected("voltage must be between -50 and 50")
  ELSE IF Present(p.current) /\ p.current.t # "num"
    THEN Rejected("current must be a valid number")
  ELSE IF Present(p.power) /\ p.power.t # "num"
    THEN Rejected("power must be a valid number")
  ELSE IF Present(p.valve_status)
          /\ p.valve_status # OPEN /\ p.valve_status # CLOSED
    THEN Rejected("valve_status must be exactly OPEN or CLOSED")
  ELSE LatencyCheck(p, clock)

\* (mutant) the latency check runs before the physics bounds
validateTelemetryLatencyFirst(p, clock) ==
  IF p.shape # "object" THEN Rejected("Payload is not a JSON object")
  ELSE IF ~HasTimestamp(p) THEN Rejected("Missing required field: timestamp")
  ELSE IF ~LatencyCheck(p, clock).valid THEN LatencyCheck(p, clock)
  ELSE PhysicsBounds(p, clock)

validateTelemetry(p, clock) ==
  IF p.shape # "object" THEN Rejected("Payload is not a JSON object")
  ELSE IF ~HasTimestamp(p) THEN Rejected("Missing required field: timestamp")
  ELSE PhysicsBounds(p, clock)

---------------------------------------------------------------------------
(* services/alertService.js: threshold rules *)

THRESHOLD_RULES ==
  << [sensor |-> "ph", severity |-> "warning"],
     [sensor |-> "tds", severity |-> "warning"],
     [sensor |-> "temperature", severity |-> "warning"],
     [sensor |-> "flow_rate", severity |-> "warning"] >>

Sensors == {"ph", "tds", "temperature", "flow_rate", "device"}
DeviceKey == <<"device", "critical">>
Keys == {<<THRESHOLD_RULES[i].sensor, THRESHOLD_RULES[i].severity>> :
           i \in 1..Len(THRESHOLD_RULES)} \cup {DeviceKey}

\* rule.check(payload)
Check(sensor, p) ==
  CASE sensor = "ph" -> JsLt(p.ph, PH_MIN) \/ JsGt(p.ph, PH_MAX)
    [] sensor = "tds" -> JsGt(p.tds, TDS_MAX)
    [] sensor = "temperature" ->
         JsLt(p.temperature, TEMP_MIN) \/ JsGt(p.temperature, TEMP_MAX)
    [] sensor = "flow_rate" ->
         JsLt(p.flow_rate, FLOW_MIN) \/ JsGt(p.flow_rate, FLOW_MAX)

\* rule.message(payload) calls payload[sensor].toFixed(..)
MessageThrows(sensor, p) ==
  CASE sensor = "ph" -> ToFixedThrows(p.ph)
    [] sensor = "tds" -> ToFixedThrows(p.tds)
    [] sensor = "temperature" -> ToFixedThrows(p.temperature)
    [] sensor = "flow_rate" -> ToFixedThrows(p.flow_rate)

---------------------------------------------------------------------------
(* services/mqttListener.js: topics and message bodies *)

TOPIC_TELEMETRY == "mfc/system_01/telemetry"
TOPIC_ALERTS == "mfc/system_01/alerts"
TOPIC_COMMAND == "mfc/system/_01/command"
COMMAND_TOPIC == "mfc/system/_01/command"   \* routes/pump.js

VALID_COMMANDS == {"MANUAL_ON", "MANUAL_OFF", "AUTO"}

\* A message body (rawBuffer): lead and trail are whitespace around text;
\* json tells whether text is well-formed JSON and value is what it parses
\* to.  The text of a telemetry body is left abstract.
TextBody(lead, text, trail) ==
  [lead |-> lead, text |-> text, trail |-> trail, json |-> FALSE,
   value |-> NoPayload]

JsonBody(text, value) ==
  [lead |-> "", text |-> text, trail |-> "", json |-> TRUE, value |-> value]

\* rawBuffer.toString('utf8')
RawText(body) == body.lead \o body.text \o body.trail

\* (mutant) no trim: the raw text is used
TrimNothing(body) == RawText(body)

\* rawBuffer.toString('utf8').trim()
Trim(body) == body.text

\* echo: the message is the broker's echo of a command of the pump route;
\* reason: what logDroppedPacket was given for it ("" when it was not called)
NoMessage ==
  [topic |-> "", body |-> TextBody("", "", ""), echo |-> FALSE, reason |-> ""]

---------------------------------------------------------------------------
(* The Alert collection *)

NonResolved(a) == a.status \in {"active", "acknowledged"}

AlertIds == 1..Len(alerts)

RecordsOf(key) ==
  {i \in AlertIds : alerts[i].sensor = key[1] /\ alerts[i].severity = key[2]}

NonResolvedOf(key) == {i \in RecordsOf(key) : NonResolved(alerts[i])}

NonResolvedOfSensor(sensor) ==
  {i \in AlertIds : alerts[i].sensor = sensor /\ NonResolved(alerts[i])}

\* Alert.findOne({ sensor, severity, status: 'active' })
FindOneActive(sensor, severity) ==
  \E i \in AlertIds : /\ alerts[i].sensor = sensor
                      /\ alerts[i].severity = severity
                      /\ alerts[i].status = "active"

\* Alert.create({ severity, sensor, ... }): status defaults to 'active'
NewAlert(sensor, severity) ==
  [sensor |-> sensor, severity |-> severity, status |-> "active",
   resolvedAt |-> FALSE]

\* (mutant) the filter matches active records only
UpdateManyMatchesActiveOnly(a, sensor) ==
  a.sensor = sensor /\ a.status = "active"

\* the filter of Alert.updateMany in resolveAlertsForSensor
UpdateManyMatches(a, sensor) ==
  a.sensor = sensor /\ a.status \in {"active", "acknowledged"}

\* Alert.updateMany(filter, { status: 'resolved', resolvedAt: new Date() })
UpdateManyResolved(sensor) ==
  [i \in AlertIds |->
     IF UpdateManyMatches(alerts[i], sensor)
       THEN [alerts[i] EXCEPT !.status = "resolved", !.resolvedAt = TRUE]
       ELSE alerts[i]]

ModifiedCount(sensor) ==
  Cardinality({i \in AlertIds : UpdateManyMatches(alerts[i], sensor)})

---------------------------------------------------------------------------
(* Handler invocations *)

\* validation: the block the validator attaches to an accepted reading
NoValidation == [status |-> "", failed_parameters |-> <<>>]

\* The answer of the database to a request: ok (the operation succeeded),
\* found (a document matched), n (modifiedCount, or the timestamp found)
NoRes == [ok |-> TRUE, found |-> FALSE, n |-> 0]

\* kind    "none" | "telemetry" | "watchdog"
\* pc      where the invocation is suspended; "x_wait": request x sent,
\*         "x_done": the database has answered, continuation not yet run
\* res     the answer of the database to the pending request
\* rule    index of the threshold rule being evaluated
\* sensor, severity   arguments of the createAlert / resolveAlertsForSensor
\*         call in progress
\* History of the invocation: afterErr (it started after another one had
\* caught an error), save ("none", "pending", "ok", "failed": the store
\* was unreachable, "invalid": the schema rejected the document), evalInvoked,
\* live (live_telemetry emitted), calls (createAlert /
\* resolveAlertsForSensor invocations, in order), err (an error was thrown
\* inside the try block), storeErr (a database operation of the alert
\* engine failed), emitErr (io.emit threw inside the alert engine), age (ageMs as computed by checkDeviceOffline, -1 before)
IdleTask ==
  [kind |-> "none", pc |-> "idle", payload |-> NoPayload,
   validation |-> NoValidation, res |-> NoRes,
   rule |-> 0, sensor |-> "", severity |-> "", afterErr |-> FALSE,
   save |-> "none",
   evalInvoked |-> FALSE, live |-> FALSE, calls |-> <<>>, err |-> FALSE,
   storeErr |-> FALSE, emitErr |-> FALSE, age |-> -1]

InFlight(t) == tasks[t].pc \notin {"idle", "done"}
Quiescent == \A t \in Procs : ~InFlight(t)

\* A new invocation takes the first slot that is not in flight
FirstFree(t) == ~InFlight(t) /\ \A u \in Procs : ~InFlight(u) => t <= u

\* A broadcast is <<event, payload>>; the payload of an alert of the engine
\* is abstracted to its sensor, that of a command to its token, that of a
\* message of the alert topic to its JSON text
LiveTag == <<"live_telemetry", "">>
AlertTexts == {"{\"level\":\"critical\"}", "null", "{telemetry}"}
CommandTexts == VALID_COMMANDS \cup {"manual_on"}
EventTags ==
  {<<"system_alert", s>> : s \in Sensors}
    \cup {<<"alert_resolved", s>> : s \in Sensors} \cup {LiveTag}
    \cup {<<"pump_command", c>> : c \in CommandTexts}
    \cup {<<"system_alert", a>> : a \in AlertTexts}

Emit(em, tag) == [em EXCEPT ![tag] = @ + 1]

---------------------------------------------------------------------------
(* History of fire calls per key (used by the idempotence property).       *)
(* An epoch of a key starts when createAlert is called while the key is    *)
(* neither indexed nor has a non-resolved record; it ends with a call of   *)
(* resolveAlertsForSensor for the sensor, a restart or a failed call.      *)
(* Only the keys in DOMAIN epoch are tracked: all of them in the           *)
(* sequential specification, none in the others.                           *)

NoEpoch == [on |-> FALSE, n |-> 0, recs |-> 0, ems |-> 0]

EpochFireStart(ep, key, keys, em) ==
  IF key \in DOMAIN ep /\ ~ep[key].on /\ key \notin keys
     /\ NonResolvedOf(key) = {}
    THEN [ep EXCEPT ![key] = [on |-> TRUE, n |-> 0,
                              recs |-> Cardinality(RecordsOf(key)),
                              ems |-> em[<<"system_alert", key[1]>>]]]
    ELSE ep

EpochFireEnd(ep, key) ==
  IF key \in DOMAIN ep /\ ep[key].on
    THEN [ep EXCEPT ![key].n = IF @ < 2 THEN @ + 1 ELSE @]
  ELSE ep

EpochEndKey(ep, key) ==
  [k \in DOMAIN ep |-> IF k = key THEN NoEpoch ELSE ep[k]]

EpochEndSensor(ep, sensor) ==
  [k \in DOMAIN ep |-> IF k[1] = sensor THEN NoEpoch ELSE ep[k]]

---------------------------------------------------------------------------
(* services/alertService.js: the alert engine.                             *)
(* The operators below transform a context st = [task, keys, em, ep,       *)
(* crash, io]: the running invocation, activeKeys, the broadcast counts,   *)
(* the epoch history, whether an error escaped and whether io.emit works.  *)
(* Each runs the code up to the next await on the database.                *)

RECURSIVE ProcessFrom(_, _)
RECURSIVE Return(_)

\* The invocation ends: its locals are gone
Done(st) ==
  [st EXCEPT !.task.pc = "done", !.task.res = NoRes, !.task.rule = 0,
             !.task.sensor = "", !.task.severity = ""]

\* (mutant) no try/catch: the error leaves the async function as an
\* unhandled rejection
CatchErrorRethrow(st) == Done([st EXCEPT !.task.err = TRUE, !.crash = TRUE])

\* catch (err) { console.error(...) } of processTelemetryAlerts and of
\* checkDeviceOffline: the error is logged and the invocation ends
CatchError(st) == Done([st EXCEPT !.task.err = TRUE])

\* (mutant) the key is never added to the index
AddKeyForgotten(keys, key) == keys

\* activeKeys.add(key)
AddKey(keys, key) == keys \cup {key}

\* (mutant) no key is deleted
DeleteKeysForgotten(keys, sensor) == keys

\* (mutant) the prefix test is dropped: every key is deleted
DeleteKeysAll(keys, sensor) == {}

\* for (const key of activeKeys) if (key.startsWith(`${sensor}:`)) delete
DeleteKeysOf(keys, sensor) == {k \in keys : k[1] # sensor}

\* createAlert up to its first await
CreateAlert(st, sensor, severity) ==
  LET key == <<sensor, severity>>
      st1 == [st EXCEPT !.task.calls = Append(@, <<"fire", sensor>>),
                        !.task.sensor = sensor,
                        !.task.severity = severity,
                        !.ep = EpochFireStart(@, key, st.keys, st.em)]
  IN IF key \in st.keys
       THEN Return([st1 EXCEPT !.ep = EpochFireEnd(@, key)])
       ELSE [st1 EXCEPT !.task.pc = "find_wait"]

\* resolveAlertsForSensor up to its await
ResolveAlertsForSensor(st, sensor) ==
  [st EXCEPT !.task.calls = Append(@, <<"clear", sensor>>),
             !.task.sensor = sensor,
             !.task.severity = "",
             !.keys = DeleteKeysOf(@, sensor),
             !.ep = EpochEndSensor(@, sensor),
             !.task.pc = "update_wait"]

\* the loop of processTelemetryAlerts, from rule i on
ProcessFrom(st, i) ==
  IF i > Len(THRESHOLD_RULES) THEN Done(st)
  ELSE LET rule == THRESHOLD_RULES[i]
           st1 == [st EXCEPT !.task.rule = i]
       IN IF Check(rule.sensor, st.task.payload)
            THEN IF MessageThrows(rule.sensor, st.task.payload)
                   THEN CatchError(st1)
                   ELSE CreateAlert(st1, rule.sensor, rule.severity)
            ELSE ResolveAlertsForSensor(st1, rule.sensor)

\* createAlert / resolveAlertsForSensor returns to its caller
Return(st) ==
  IF st.task.kind = "telemetry"
    THEN ProcessFrom(st, st.task.rule + 1)
    ELSE Done(st)

\* createAlert after `await Alert.findOne(...)`
AfterFindOne(st) ==
  LET key == <<st.task.sensor, st.task.severity>> IN
  IF ~st.task.res.ok
    THEN CatchError([st EXCEPT !.task.storeErr = TRUE,
                               !.ep = EpochEndKey(@, key)])
  ELSE IF st.task.res.found
    THEN Return([st EXCEPT !.keys = AddKey(@, key),
                           !.ep = EpochFireEnd(@, key)])
  ELSE [st EXCEPT !.keys = AddKey(@, key), !.task.pc = "create_wait"]

\* createAlert after `await Alert.create(...)`
AfterCreate(st) ==
  LET key == <<st.task.sensor, st.task.severity>> IN
  IF ~st.task.res.ok
    THEN CatchError([st EXCEPT !.task.storeErr = TRUE,
                               !.ep = EpochEndKey(@, key)])
  ELSE IF ~st.io   \* io.emit throws: caught by the caller's try/catch
    THEN CatchError([st EXCEPT !.task.emitErr = TRUE,
                               !.ep = EpochEndKey(@, key)])
  ELSE Return([st EXCEPT !.em = Emit(@, <<"system_alert", key[1]>>),
                         !.ep = EpochFireEnd(@, key)])

\* resolveAlertsForSensor after `await Alert.updateMany(...)`
AfterUpdateMany(st) ==
  IF ~st.task.res.ok
    THEN CatchError([st EXCEPT !.task.storeErr = TRUE])
  ELSE IF st.task.res.n > 0
    THEN IF ~st.io   \* io.emit throws: caught by the caller's try/catch
           THEN CatchError([st EXCEPT !.task.emitErr = TRUE])
           ELSE Return([st EXCEPT !.em = Emit(@, <<"alert_resolved",
                                                  st.task.sensor>>)])
  ELSE Return(st)

\* (mutant) the threshold itself counts as offline
IsOfflineInclusive(ageMs) == ageMs >= OFFLINE_THRESHOLD_MS

\* if (ageMs > OFFLINE_THRESHOLD_MS)
IsOffline(ageMs) == ageMs > OFFLINE_THRESHOLD_MS

\* checkDeviceOffline after `await SystemLog.findOne().sort(...)`
AfterFindLatest(st, clock) ==
  IF ~st.task.res.ok
    THEN CatchError([st EXCEPT !.task.storeErr = TRUE])
  ELSE IF ~st.task.res.found THEN Done(st)
  ELSE LET ageMs == clock - st.task.res.n
           st1 == [st EXCEPT !.task.age = ageMs]
       IN IF IsOffline(ageMs)
            THEN CreateAlert(st1, "device", "critical")
            ELSE ResolveAlertsForSensor(st1, "device")

---------------------------------------------------------------------------
(* services/mqttListener.js: handleTelemetry *)

\* SystemLogSchema: every reading and valve_status is required; a document
\* that fails validation is not sent to the store
SchemaAccepts(p) ==
  /\ p.timestamp.t = "num"
  /\ Present(p.ph) /\ Present(p.tds)
  /\ Present(p.temperature) /\ Present(p.flow_rate)
  /\ Present(p.salinity) /\ Present(p.conductivity)
  /\ Present(p.voltage) /\ Present(p.current) /\ Present(p.power)
  /\ Present(p.valve_status)

\* (mutant) io.emit inside a try/catch that logs the error
EmitLiveGuarded(st) ==
  IF st.io THEN [st EXCEPT !.em = Emit(@, LiveTag), !.task.live = TRUE]
  ELSE st

\* io.emit('live_telemetry', validatedData): the last statement of
\* handleTelemetry, outside any try block; when it throws, the promise of
\* the message handler is rejected and nobody handles the rejection
EmitLive(st) ==
  IF st.io THEN [st EXCEPT !.em = Emit(@, LiveTag), !.task.live = TRUE]
  ELSE [st EXCEPT !.crash = TRUE]

\* (mutant) no try/catch around save: a failed save ends the handler
AfterSaveNoCatch(st) ==
  IF ~st.task.res.ok THEN Done([st EXCEPT !.crash = TRUE])
  ELSE EmitLive(ProcessFrom([st EXCEPT !.task.evalInvoked = TRUE], 1))

\* handleTelemetry after `await newLog.save()`: a failure is caught and
\* logged; then processTelemetryAlerts is started (not awaited) and the
\* reading is broadcast
AfterSave(st) ==
  LET st1 == [st EXCEPT !.task.evalInvoked = TRUE]
  IN EmitLive(ProcessFrom(st1, 1))

---------------------------------------------------------------------------
(* Inputs *)

\* Telemetry messages that can arrive at time `clock`
\* rest: the other fields are all present and in range, or all absent
Reading(clock, latency, ph, rest) ==
  [shape |-> "object", timestamp |-> Num(clock - latency), ph |-> ph,
   tds |-> IF rest THEN Num(12000) ELSE Undef,
   temperature |-> IF rest THEN Num(250) ELSE Undef,
   flow_rate |-> IF rest THEN Num(15) ELSE Undef,
   salinity |-> IF rest THEN Num(5) ELSE Undef,
   conductivity |-> IF rest THEN Num(21) ELSE Undef,
   voltage |-> IF rest THEN Num(6) ELSE Undef,
   current |-> IF rest THEN Num(3) ELSE Undef,
   power |-> IF rest THEN Num(2) ELSE Undef,
   valve_status |-> IF rest THEN OPEN ELSE Undef]

\* every sensor in range; ph above 8.5
ThresholdPackets(clock) ==
  { Reading(clock, 0, Num(70), TRUE),
    Reading(clock, 0, Num(90), TRUE) }

\* also: timestamp only; ph: null; a stale packet
Packets(clock) ==
  ThresholdPackets(clock) \cup
  { Reading(clock, 0, Undef, FALSE),
    Reading(clock, 0, Null, TRUE),
    Reading(clock, MAX_LATENCY_MS + 1, Num(90), TRUE) }

\* A reading with the given ph and tds and no other sensor field
Partial(clock, ph, tds) ==
  [NoPayload EXCEPT !.timestamp = Num(clock), !.ph = ph, !.tds = tds]

\* Readings around the bounds of the soft gatekeeper
SoftPackets(clock) ==
  { Partial(clock, ph, tds) :
      ph \in {Undef, Null, Num(PH_MIN - 1), Num(PH_MIN), Num(PH_MAX),
              Num(PH_MAX + 1)},
      tds \in {Undef, Null, Num(TDS_MAX), Num(TDS_MAX + 1)} }

\* What the watchdog can find persisted: a complete reading; and a partial
\* one, which the schema rejects
WatchdogPackets(clock) ==
  { Reading(clock, 0, Num(70), TRUE), Reading(clock, 0, Undef, FALSE) }

\* Complete readings with ph outside / at the ends of the range of its rule
Violating(clock) ==
  { Reading(clock, 0, Num(PH_MIN - 1), TRUE),
    Reading(clock, 0, Num(PH_MAX + 1), TRUE) }

InRange(clock) ==
  { Reading(clock, 0, Num(PH_MIN), TRUE),
    Reading(clock, 0, Num(PH_MAX), TRUE) }

\* Messages of any publisher: plain text (malformed as JSON), padded text,
\* JSON null, a JSON object without timestamp, telemetry readings
JsonNull == [NoPayload EXCEPT !.shape = "null"]
JsonArray == [NoPayload EXCEPT !.shape = "array"]

\* A complete reading with every field in range, sent `latency` ms ago
Complete(clock, latency) == Reading(clock, latency, Num(70), TRUE)

\* Values of one field at and around its hard bound, of the wrong type,
\* null and absent
FieldValues ==
  { <<"ph", v>> : v \in {Undef, Null, Str, Num(-1), Num(0), Num(PH_HARD_MAX),
                         Num(PH_HARD_MAX + 1)} }
    \cup { <<f, v>> : f \in {"tds", "temperature", "flow_rate", "salinity",
                             "conductivity"},
                      v \in {Str, Num(-1), Num(0)} }
    \cup { <<"voltage", v>> : v \in {Str, Num(VOLTAGE_MIN - 1), Num(VOLTAGE_MIN),
                                     Num(VOLTAGE_MAX), Num(VOLTAGE_MAX + 1)} }
    \cup { <<f, v>> : f \in {"current", "power"}, v \in {Str, Num(-1)} }
    \cup { <<"valve_status", v>> : v \in {Null, Num(1), CLOSED, HALF_OPEN} }

\* Timestamps at and around the latency bound, unparseable and absent
TimestampValues(clock) ==
  { Num(clock - MAX_LATENCY_MS - 1), Num(clock - MAX_LATENCY_MS),
    Num(clock + MAX_LATENCY_MS), Num(clock + MAX_LATENCY_MS + 1),
    Str, Undef }

\* Field values that fail a hard bound, combined with a failing timestamp
\* or with each other
OutOfBounds ==
  { <<"ph", Num(PH_HARD_MAX + 1)>>, <<"tds", Str>>,
    <<"valve_status", HALF_OPEN>> }

BadTimestamps(clock) == { Num(clock - MAX_LATENCY_MS - 1), Str, Undef }

With(p, fv) == [p EXCEPT ![fv[1]] = fv[2]]

\* Packets for the hard gatekeeper: one field varied; the timestamp varied;
\* a failing field together with a failing timestamp; two failing fields;
\* values that are not objects
GatePackets(clock) ==
  { With(Complete(clock, 0), fv) : fv \in FieldValues }
    \cup { With(Complete(clock, 0), <<"timestamp", ts>>) :
             ts \in TimestampValues(clock) }
    \cup { With(With(Complete(clock, 0), fv), <<"timestamp", ts>>) :
             fv \in OutOfBounds, ts \in BadTimestamps(clock) }
    \cup { With(With(Complete(clock, 0), <<"valve_status", HALF_OPEN>>), fv) :
             fv \in {<<"ph", Str>>, <<"power", Str>>} }
    \cup { Complete(clock, 0), JsonNull, JsonArray }

Bodies(clock) ==
  { TextBody("", c, "") : c \in CommandTexts }
    \cup { TextBody(" ", "AUTO", " ") }
    \cup { JsonBody("null", JsonNull),
           JsonBody("{\"level\":\"critical\"}", NoPayload),
           JsonBody("{telemetry}", Reading(clock, 0, Num(90), TRUE)),
           JsonBody("{telemetry}",
                    Reading(clock, MAX_LATENCY_MS + 1, Num(90), TRUE)) }

Topics ==
  {TOPIC_TELEMETRY, TOPIC_ALERTS, TOPIC_COMMAND, "mfc/system_01/status"}

\* Outcomes of a database operation: the store answers (TRUE) or fails
StoreUp == {TRUE}
StoreUpOrDown == BOOLEAN

TimeSteps == {OFFLINE_THRESHOLD_MS + 1}
WatchdogTimeSteps == {OFFLINE_THRESHOLD_MS, OFFLINE_THRESHOLD_MS + 1}
IntervalTimeSteps == {WATCHDOG_INTERVAL_MS, WATCHDOG_INTERVAL_MS + 1}

---------------------------------------------------------------------------
(* State machine *)

Init ==
  /\ activeKeys = {}
  /\ alerts = <<>>
  /\ systemLogs = {}
  /\ now = 0
  /\ tasks = [t \in Procs |-> IdleTask]
  /\ emitted = [e \in EventTags |-> 0]
  /\ delivered = 0
  /\ crashed = FALSE
  /\ epoch = <<>>
  /\ routed = NoMessage
  /\ ioUp = TRUE
  /\ published = <<>>
  /\ lastAccepted = -1

InitSeq ==
  /\ activeKeys = {}
  /\ alerts = <<>>
  /\ systemLogs = {}
  /\ now = 0
  /\ tasks = [t \in Procs |-> IdleTask]
  /\ emitted = [e \in EventTags |-> 0]
  /\ delivered = 0
  /\ crashed = FALSE
  /\ epoch = [k \in Keys |-> NoEpoch]
  /\ routed = NoMessage
  /\ ioUp = TRUE
  /\ published = <<>>
  /\ lastAccepted = -1

Ctx(t) ==
  [task |-> tasks[t], keys |-> activeKeys, em |-> emitted, ep |-> epoch,
   crash |-> crashed, io |-> ioUp]

\* The history of a finished invocation is kept until the next one finishes
Apply(t, st) ==
  /\ tasks' = [u \in Procs |->
                 IF u = t THEN st.task
                 ELSE IF st.task.pc = "done" /\ tasks[u].pc = "done"
                   THEN IdleTask
                 ELSE tasks[u]]
  /\ activeKeys' = st.keys
  /\ emitted' = st.em
  /\ epoch' = st.ep
  /\ crashed' = st.crash

\* logDroppedPacket(result.reason, rawPayload): the reason logged for a
\* rejected packet ("" for an accepted one, which is not logged)
LogDroppedPacket(p) == validateTelemetry(p, now).reason

\* (mutant) the verdict of the validator is ignored
DropsPacketNever(result) == FALSE

\* if (!result.valid) { logDroppedPacket(...); return; }
DropsPacket(result) == ~result.valid

\* validation: { status, failed_parameters } of the validated payload
ValidationOf(result) ==
  [status |-> IF Len(result.failed) > 0 THEN "FAIL" ELSE "PASS",
   failed_parameters |-> result.failed]

\* handleTelemetry up to `await newLog.save()`
HandleTelemetry(t, p) ==
  LET result == validateTelemetry(p, now) IN
  IF DropsPacket(result)
    THEN UNCHANGED <<tasks, lastAccepted>>
    ELSE /\ tasks' = [tasks EXCEPT ![t] =
              [IdleTask EXCEPT !.kind = "telemetry", !.pc = "save_wait",
                               !.payload = p, !.save = "pending",
                               !.validation = ValidationOf(result),
                               !.afterErr = \E u \in Procs : tasks[u].err]]
         /\ lastAccepted' = now

\* (mutant) a null payload is not forwarded
HandleAlertSkipsNull(text) ==
  IF text = "null" THEN UNCHANGED <<emitted, crashed>>
  ELSE IF ioUp
    THEN emitted' = Emit(emitted, <<"system_alert", text>>)
         /\ UNCHANGED crashed
    ELSE crashed' = TRUE /\ UNCHANGED emitted

\* handleAlert(payload, io); the payload is named by its JSON text.  Like
\* handleCommand it is called with no try block around it: when io.emit
\* throws, the promise of the message handler is rejected
HandleAlert(text) ==
  IF ioUp
    THEN emitted' = Emit(emitted, <<"system_alert", text>>)
         /\ UNCHANGED crashed
    ELSE crashed' = TRUE /\ UNCHANGED emitted

\* handleCommand(command, io)
HandleCommand(command) ==
  IF command \notin VALID_COMMANDS
    THEN UNCHANGED <<emitted, crashed>>
  ELSE IF ioUp
    THEN emitted' = Emit(emitted, <<"pump_command", command>>)
         /\ UNCHANGED crashed
    ELSE crashed' = TRUE /\ UNCHANGED emitted

\* The handler of client.on('message'), up to its first await
Route(t, topic, body, echo) ==
  /\ ~crashed
  /\ FirstFree(t)
  /\ delivered < MaxPackets
  /\ delivered' = delivered + 1
  /\ routed' = [topic |-> topic, body |-> body, echo |-> echo,
                reason |-> IF topic = TOPIC_TELEMETRY /\ body.json
                             THEN LogDroppedPacket(body.value) ELSE ""]
  /\ IF topic = TOPIC_COMMAND
       THEN HandleCommand(Trim(body)) /\ UNCHANGED <<tasks, lastAccepted>>
     ELSE IF ~body.json   \* JSON.parse throws: dropped
       THEN UNCHANGED <<tasks, emitted, crashed, lastAccepted>>
     ELSE IF topic = TOPIC_ALERTS
       THEN HandleAlert(body.text) /\ UNCHANGED <<tasks, lastAccepted>>
     ELSE IF topic = TOPIC_TELEMETRY
       THEN HandleTelemetry(t, body.value) /\ UNCHANGED <<emitted, crashed>>
     ELSE UNCHANGED <<tasks, emitted, crashed, lastAccepted>>   \* unhandled topic
  /\ UNCHANGED <<activeKeys, alerts, systemLogs, now, epoch, ioUp>>

\* The broker delivers a message of some publisher
OnMessage(t, topic, body) ==
  /\ Route(t, topic, body, FALSE)
  /\ UNCHANGED published

\* A telemetry message with a well-formed JSON body arrives
Deliver(t, p) == OnMessage(t, TOPIC_TELEMETRY, JsonBody("{telemetry}", p))

\* The broker echoes a command published by POST /api/pump/command
BrokerEcho(t) ==
  /\ published # <<>>
  /\ Route(t, COMMAND_TOPIC, TextBody("", Head(published), ""), TRUE)
  /\ published' = Tail(published)

\* (mutant) the route broadcasts the command itself after publishing
AfterPublishEmits(em, command) == Emit(em, <<"pump_command", command>>)

\* routes/pump.js after `await mqttClient.publishAsync(...)`: the route
\* answers the request and broadcasts nothing
AfterPublish(em, command) == em

\* POST /api/pump/command with body { command }; connected:
\* mqttClient.connected; ok: publishAsync resolves
PostPumpCommand(command, connected, ok) ==
  /\ ~crashed
  /\ Len(published) < MaxPublished
  /\ IF command \in VALID_COMMANDS /\ connected /\ ok
       THEN /\ published' = Append(published, command)
            /\ emitted' = AfterPublish(emitted, command)
       ELSE UNCHANGED <<published, emitted>>
  /\ UNCHANGED <<activeKeys, alerts, systemLogs, now, tasks, delivered,
                 crashed, epoch, ioUp, lastAccepted>>
  /\ routed' = NoMessage

\* The Socket.io server stops / resumes accepting broadcasts
IoDown ==
  /\ ioUp /\ ioUp' = FALSE
  /\ UNCHANGED <<activeKeys, alerts, systemLogs, now, tasks, emitted,
                 delivered, crashed, epoch, published, lastAccepted>>
  /\ routed' = NoMessage

IoRestored ==
  /\ ~ioUp /\ ~crashed /\ ioUp' = TRUE
  /\ UNCHANGED <<activeKeys, alerts, systemLogs, now, tasks, emitted,
                 delivered, crashed, epoch, published, lastAccepted>>
  /\ routed' = NoMessage

\* The database executes newLog.save(); up: the store is reachable
DbSave(t, up) ==
  /\ ~crashed
  /\ tasks[t].pc = "save_wait"
  /\ LET accepted == SchemaAccepts(tasks[t].payload)
         ok == up /\ accepted
     IN
       /\ systemLogs' = IF ok
                          THEN systemLogs \cup {tasks[t].payload.timestamp.v}
                          ELSE systemLogs
       /\ tasks' = [tasks EXCEPT ![t].pc = "save_done",
                                 ![t].save = IF ~accepted THEN "invalid"
                                             ELSE IF up THEN "ok"
                                             ELSE "failed",
                                 ![t].res = [NoRes EXCEPT !.ok = ok]]
  /\ UNCHANGED <<activeKeys, alerts, now, emitted, delivered, crashed, epoch,
                 ioVars>>
  /\ routed' = NoMessage

ResumeSave(t) ==
  /\ ~crashed
  /\ tasks[t].pc = "save_done"
  /\ Apply(t, AfterSave(Ctx(t)))
  /\ UNCHANGED <<alerts, systemLogs, now, delivered,
                 ioVars>>
  /\ routed' = NoMessage

\* The database executes Alert.findOne({ sensor, severity, status })
DbFindOne(t, up) ==
  /\ ~crashed
  /\ tasks[t].pc = "find_wait"
  /\ tasks' = [tasks EXCEPT
       ![t].pc = "find_done",
       ![t].res = [NoRes EXCEPT
          !.ok = up,
          !.found = up /\ FindOneActive(tasks[t].sensor, tasks[t].severity)]]
  /\ UNCHANGED <<activeKeys, alerts, systemLogs, now, emitted, delivered,
                 crashed, epoch,
                 ioVars>>
  /\ routed' = NoMessage

ResumeFindOne(t) ==
  /\ ~crashed
  /\ tasks[t].pc = "find_done"
  /\ Apply(t, AfterFindOne(Ctx(t)))
  /\ UNCHANGED <<alerts, systemLogs, now, delivered,
                 ioVars>>
  /\ routed' = NoMessage

\* The database executes Alert.create(...)
DbCreate(t, up) ==
  /\ ~crashed
  /\ tasks[t].pc = "create_wait"
  /\ Len(alerts) < MaxAlerts
  /\ alerts' = IF up
                 THEN Append(alerts, NewAlert(tasks[t].sensor,
                                              tasks[t].severity))
                 ELSE alerts
  /\ tasks' = [tasks EXCEPT ![t].pc = "create_done",
                            ![t].res = [NoRes EXCEPT !.ok = up]]
  /\ UNCHANGED <<activeKeys, systemLogs, now, emitted, delivered, crashed,
                 epoch,
                 ioVars>>
  /\ routed' = NoMessage

ResumeCreate(t) ==
  /\ ~crashed
  /\ tasks[t].pc = "create_done"
  /\ Apply(t, AfterCreate(Ctx(t)))
  /\ UNCHANGED <<alerts, systemLogs, now, delivered,
                 ioVars>>
  /\ routed' = NoMessage

\* The database executes Alert.updateMany(...)
DbUpdateMany(t, up) ==
  /\ ~crashed
  /\ tasks[t].pc = "update_wait"
  /\ alerts' = IF up THEN UpdateManyResolved(tasks[t].sensor) ELSE alerts
  /\ tasks' = [tasks EXCEPT
       ![t].pc = "update_done",
       ![t].res = [NoRes EXCEPT
          !.ok = up,
          !.n = IF up THEN ModifiedCount(tasks[t].sensor) ELSE 0]]
  /\ UNCHANGED <<activeKeys, systemLogs, now, emitted, delivered, crashed,
                 epoch,
                 ioVars>>
  /\ routed' = NoMessage

ResumeUpdateMany(t) ==
  /\ ~crashed
  /\ tasks[t].pc = "update_done"
  /\ Apply(t, AfterUpdateMany(Ctx(t)))
  /\ UNCHANGED <<alerts, systemLogs, now, delivered,
                 ioVars>>
  /\ routed' = NoMessage

\* setInterval(() => checkDeviceOffline(io, SystemLog), 30_000) fires:
\* checkDeviceOffline up to `await SystemLog.findOne().sort(...)`
WatchdogTick(t) ==
  /\ ~crashed
  /\ FirstFree(t)
  /\ tasks' = [tasks EXCEPT ![t] =
       [IdleTask EXCEPT !.kind = "watchdog", !.pc = "latest_wait",
                        !.afterErr = \E u \in Procs : tasks[u].err]]
  /\ UNCHANGED <<activeKeys, alerts, systemLogs, now, emitted, delivered,
                 crashed, epoch,
                 ioVars>>
  /\ routed' = NoMessage

\* (mutant) sort({ timestamp: 1 }): the oldest reading
LatestOldest == CHOOSE x \in systemLogs : \A y \in systemLogs : y >= x

\* SystemLog.findOne().sort({ timestamp: -1 })
Latest == CHOOSE x \in systemLogs : \A y \in systemLogs : y <= x

\* The database executes SystemLog.findOne().sort({ timestamp: -1 })
DbFindLatest(t, up) ==
  /\ ~crashed
  /\ tasks[t].pc = "latest_wait"
  /\ tasks' = [tasks EXCEPT
       ![t].pc = "latest_done",
       ![t].res = [ok |-> up, found |-> up /\ systemLogs # {},
                   n |-> IF up /\ systemLogs # {} THEN Latest ELSE 0]]
  /\ UNCHANGED <<activeKeys, alerts, systemLogs, now, emitted, delivered,
                 crashed, epoch,
                 ioVars>>
  /\ routed' = NoMessage

ResumeFindLatest(t) ==
  /\ ~crashed
  /\ tasks[t].pc = "latest_done"
  /\ Apply(t, AfterFindLatest(Ctx(t), now))
  /\ UNCHANGED <<alerts, systemLogs, now, delivered,
                 ioVars>>
  /\ routed' = NoMessage

\* (mutant) the filter matches the id only
AcknowledgeMatchesAny(a) == TRUE

\* the filter { _id, status: 'active' } of findOneAndUpdate; with no match
\* the route answers 404 and nothing changes
AcknowledgeMatches(a) == a.status = "active"

\* PATCH /api/alerts/:id/acknowledge
Acknowledge(id) ==
  /\ AcknowledgeMatches(alerts[id])
  /\ alerts' = [alerts EXCEPT ![id].status = "acknowledged"]
  /\ UNCHANGED <<activeKeys, systemLogs, now, tasks, emitted, delivered,
                 crashed, epoch,
                 ioVars>>
  /\ routed' = NoMessage

\* the filter { _id, status: { $in: ['active', 'acknowledged'] } }
ResolveMatches(a) == a.status \in {"active", "acknowledged"}

\* PATCH /api/alerts/:id/resolve
Resolve(id) ==
  /\ ResolveMatches(alerts[id])
  /\ alerts' = [alerts EXCEPT ![id].status = "resolved",
                              ![id].resolvedAt = TRUE]
  /\ UNCHANGED <<activeKeys, systemLogs, now, tasks, emitted, delivered,
                 crashed, epoch,
                 ioVars>>
  /\ routed' = NoMessage

\* The process is restarted: module state is rebuilt, the database stays
Restart ==
  /\ activeKeys' = {}
  /\ tasks' = [t \in Procs |-> IdleTask]
  /\ crashed' = FALSE
  /\ epoch' = [k \in DOMAIN epoch |-> NoEpoch]
  /\ UNCHANGED <<alerts, systemLogs, now, emitted, delivered,
                 ioVars>>
  /\ routed' = NoMessage

AdvanceTime(d) ==
  /\ now + d <= MaxNow
  /\ now' = now + d
  /\ UNCHANGED <<activeKeys, alerts, systemLogs, tasks, emitted, delivered,
                 crashed, epoch,
                 ioVars>>
  /\ routed' = NoMessage

\* Time passes while accepted telemetry keeps arriving: the clock never gets
\* OFFLINE_THRESHOLD_MS or more ahead of the last accepted packet
AdvanceTimeWhileArriving(d) ==
  /\ lastAccepted >= 0
  /\ now + d - lastAccepted < OFFLINE_THRESHOLD_MS
  /\ AdvanceTime(d)

\* One step of a telemetry handler in slot t; ups: the outcomes the store
\* can have
TelemetryStep(t, ups) ==
  \/ \E up \in ups : DbSave(t, up)
  \/ ResumeSave(t)
  \/ \E up \in ups : DbFindOne(t, up)
  \/ ResumeFindOne(t)
  \/ \E up \in ups : DbCreate(t, up)
  \/ ResumeCreate(t)
  \/ \E up \in ups : DbUpdateMany(t, up)
  \/ ResumeUpdateMany(t)

\* One step of the invocation in slot t, telemetry handler or watchdog tick
Step(t, ups) ==
  \/ TelemetryStep(t, ups)
  \/ \E up \in ups : DbFindLatest(t, up)
  \/ ResumeFindLatest(t)

\* Concurrent handlers and watchdog ticks over a reachable store, operator
\* actions and restarts
Next ==
  \/ \E t \in Procs : \E p \in ThresholdPackets(now) : Deliver(t, p)
  \/ \E t \in Procs : WatchdogTick(t)
  \/ \E t \in Procs : Step(t, StoreUp)
  \/ \E id \in AlertIds : Acknowledge(id)
  \/ \E id \in AlertIds : Resolve(id)
  \/ Restart
  \/ \E d \in TimeSteps : AdvanceTime(d)

Spec == Init /\ [][Next]_vars

\* The same without restart and without operator actions
NextNoRestart ==
  \/ \E t \in Procs : \E p \in ThresholdPackets(now) : Deliver(t, p)
  \/ \E t \in Procs : WatchdogTick(t)
  \/ \E t \in Procs : Step(t, StoreUp)
  \/ \E d \in TimeSteps : AdvanceTime(d)

SpecNoRestart == Init /\ [][NextNoRestart]_vars

\* The telemetry path: concurrent handlers of every kind of packet, and
\* watchdog ticks, over a store that can fail
NextPipeline ==
  \/ \E t \in Procs : \E p \in Packets(now) : Deliver(t, p)
  \/ \E t \in Procs : WatchdogTick(t)
  \/ \E t \in Procs : Step(t, StoreUpOrDown)

SpecPipeline == Init /\ [][NextPipeline]_vars

\* Sequential runs: an operation starts only when no handler is in flight
NextSeq ==
  \/ Quiescent /\ \E t \in Procs : \E p \in Packets(now) : Deliver(t, p)
  \/ Quiescent /\ \E t \in Procs : WatchdogTick(t)
  \/ \E t \in Procs : Step(t, StoreUpOrDown)
  \/ Quiescent /\ \E id \in AlertIds : Acknowledge(id)
  \/ Quiescent /\ \E id \in AlertIds : Resolve(id)
  \/ Quiescent /\ Restart
  \/ Quiescent /\ \E d \in TimeSteps : AdvanceTime(d)

SpecSeq == InitSeq /\ [][NextSeq]_vars

\* The message router: messages of every topic, the pump route and its
\* echo, over a fan-out channel that can fail
NextRouter ==
  \/ \E t \in Procs : \E topic \in Topics : \E body \in Bodies(now) :
       OnMessage(t, topic, body)
  \/ \E t \in Procs : BrokerEcho(t)
  \/ \E c \in CommandTexts : \E connected, ok \in BOOLEAN :
       PostPumpCommand(c, connected, ok)
  \/ \E t \in Procs : TelemetryStep(t, StoreUp)
  \/ IoDown
  \/ IoRestored

SpecRouter == Init /\ [][NextRouter]_vars

\* The offline watchdog: ticks and telemetry one after the other, the clock
\* stepping around the offline threshold, over a store that can fail
NextWatchdog ==
  \/ Quiescent /\ \E t \in Procs : \E p \in WatchdogPackets(now) : Deliver(t, p)
  \/ Quiescent /\ \E t \in Procs : WatchdogTick(t)
  \/ \E t \in Procs : Step(t, StoreUpOrDown)
  \/ Quiescent /\ \E d \in WatchdogTimeSteps : AdvanceTime(d)

SpecWatchdog == InitSeq /\ [][NextWatchdog]_vars

\* The validator: readings around the soft bounds, one after the other
NextValidator ==
  \/ Quiescent /\ \E t \in Procs : \E p \in SoftPackets(now) : Deliver(t, p)
  \/ \E t \in Procs : TelemetryStep(t, StoreUp)

SpecValidator == Init /\ [][NextValidator]_vars

\* The hard gatekeeper: packets around every hard bound, one after the other
NextGate ==
  \/ Quiescent /\ \E t \in Procs : \E p \in GatePackets(now) : Deliver(t, p)
  \/ \E t \in Procs : TelemetryStep(t, StoreUp)

SpecGate == Init /\ [][NextGate]_vars

\* The life of alert records: concurrent telemetry handlers and watchdog
\* ticks over a reachable store, and the operator routes
NextLifecycle ==
  \/ \E t \in Procs : \E p \in ThresholdPackets(now) : Deliver(t, p)
  \/ \E t \in Procs : WatchdogTick(t)
  \/ \E t \in Procs : Step(t, StoreUp)
  \/ \E d \in TimeSteps : AdvanceTime(d)
  \/ \E id \in AlertIds : Acknowledge(id)
  \/ \E id \in AlertIds : Resolve(id)

SpecLifecycle == Init /\ [][NextLifecycle]_vars

\* The watchdog while telemetry keeps arriving: complete and partial
\* packets and ticks one after the other, over a store that can fail
NextOffline ==
  \/ Quiescent /\ \E t \in Procs : \E p \in WatchdogPackets(now) : Deliver(t, p)
  \/ Quiescent /\ \E t \in Procs : WatchdogTick(t)
  \/ \E t \in Procs : Step(t, StoreUpOrDown)
  \/ Quiescent /\ \E d \in IntervalTimeSteps : AdvanceTimeWhileArriving(d)

SpecOffline == Init /\ [][NextOffline]_vars

\* A packet violating the ph threshold, then packets within range, their
\* handlers interleaving at every await, over a reachable store
NextRace ==
  \/ delivered = 0 /\ \E t \in Procs : \E p \in Violating(now) : Deliver(t, p)
  \/ delivered > 0 /\ \E t \in Procs : \E p \in InRange(now) : Deliver(t, p)
  \/ \E t \in Procs : TelemetryStep(t, StoreUp)

SpecRace == Init /\ [][NextRace]_vars

\* Telemetry handlers one after the other over a reachable store, and the
\* operator routes between them
NextOperator ==
  \/ Quiescent /\ \E t \in Procs : \E p \in Packets(now) : Deliver(t, p)
  \/ \E t \in Procs : TelemetryStep(t, StoreUp)
  \/ Quiescent /\ \E id \in AlertIds : Acknowledge(id)
  \/ Quiescent /\ \E id \in AlertIds : Resolve(id)

SpecOperator == Init /\ [][NextOperator]_vars

---------------------------------------------------------------------------
(* Properties *)

Telemetry(t) == tasks[t].kind = "telemetry"

\* C1: durable storage never holds more than one record with status
\* active or acknowledged for a (sensor, severity) pair.
C1_AtMostOneNonResolvedPerKey ==
  \A k \in Keys : Cardinality(NonResolvedOf(k)) <= 1

\* C2: when createAlert queries the store while a non-resolved (active or
\* acknowledged) record of the pair exists, the query finds it; and a call
\* whose query found a record adds the key to the index, creates no record
\* and broadcasts no system_alert.
C2_FireAdoptsNonResolvedRecord ==
  [][\A t \in Procs :
       LET key == <<tasks[t].sensor, tasks[t].severity>> IN
       /\ (/\ tasks[t].pc = "find_wait"
           /\ tasks'[t].pc = "find_done"
           /\ tasks'[t].res.ok
           /\ NonResolvedOf(key) # {})
          => tasks'[t].res.found
       /\ (/\ tasks[t].pc = "find_done"
           /\ tasks[t].res.found
           /\ tasks'[t].pc \notin {"find_done", "idle"})
          => /\ key \in activeKeys'
             /\ alerts' = alerts
             /\ emitted'[<<"system_alert", key[1]>>]
                  = emitted[<<"system_alert", key[1]>>]]_vars

\* C3: whenever no handler is in flight, a key is in the index if and only
\* if the store holds an active or acknowledged record of the pair.
C3_IndexMatchesStorageWhenQuiescent ==
  Quiescent =>
    \A k \in Keys : (k \in activeKeys) <=> (NonResolvedOf(k) # {})

\* C4: without restart, no two distinct non-resolved records have the same
\* (sensor, severity).
C4_NoDuplicateWithoutRestart ==
  \A i, j \in AlertIds :
    (/\ i # j
     /\ NonResolved(alerts[i]) /\ NonResolved(alerts[j])
     /\ alerts[i].sensor = alerts[j].sensor)
    => alerts[i].severity # alerts[j].severity

\* C5: two createAlert calls for the same pair, one after the other, the
\* first begun with the key not indexed and no non-resolved record of the
\* pair, with no resolveAlertsForSensor, restart or failure in between,
\* leave exactly one record of the pair more than before and broadcast
\* exactly one system_alert for it.
C5_FireTwiceCreatesOnce ==
  \A k \in DOMAIN epoch :
    (epoch[k].on /\ epoch[k].n = 2)
    => /\ Cardinality(RecordsOf(k)) = epoch[k].recs + 1
       /\ emitted[<<"system_alert", k[1]>>] = epoch[k].ems + 1

C5_Witness ==
  \E k \in DOMAIN epoch :
    /\ epoch[k].on /\ epoch[k].n = 2
    /\ Cardinality(RecordsOf(k)) = epoch[k].recs + 1

\* The createAlert / resolveAlertsForSensor calls of an invocation that have
\* returned normally: all but the one in progress or the one that failed
CompletedCalls(t) ==
  LET c == tasks[t].calls IN
  IF c = <<>> THEN c
  ELSE IF tasks[t].pc = "done" /\ ~tasks[t].storeErr /\ ~tasks[t].emitErr
    THEN c
  ELSE SubSeq(c, 1, Len(c) - 1)

ClearedSensors(t) ==
  {CompletedCalls(t)[j][2] :
     j \in {i \in 1..Len(CompletedCalls(t)) : CompletedCalls(t)[i][1] = "clear"}}

\* C6: in a sequential run, once resolveAlertsForSensor(sensor) has
\* returned, the index has no key of the sensor and every record of the
\* sensor is resolved with resolvedAt set.
C6_ClearResolvesSensor ==
  \A t \in Procs : \A s \in ClearedSensors(t) :
    /\ \A k \in activeKeys : k[1] # s
    /\ \A i \in AlertIds :
         alerts[i].sensor = s
         => alerts[i].status = "resolved" /\ alerts[i].resolvedAt

C6_Witness ==
  \E t \in Procs : \E s \in ClearedSensors(t) :
    /\ \E c \in 1..Len(tasks[t].calls) : tasks[t].calls[c] = <<"clear", s>>
    /\ \E i \in AlertIds : alerts[i].sensor = s /\ alerts[i].resolvedAt
    /\ emitted[<<"alert_resolved", s>>] > 0

\* The key whose createAlert call ends in the step of slot t
AddedByFire(t) ==
  IF tasks[t].pc = "find_done"
    THEN {<<tasks[t].sensor, tasks[t].severity>>}
    ELSE {}

\* C7: resolveAlertsForSensor(sensor) removes exactly the index keys of the
\* sensor, changes only active or acknowledged records of the sensor, and
\* broadcasts alert_resolved for the sensor if and only if it transitioned
\* at least one record; with no key and no such record it changes nothing.
C7_ClearFrame ==
  [][\A t \in Procs :
       /\ (tasks'[t].pc = "update_wait" /\ tasks[t].pc # "update_wait")
          => /\ activeKeys' = {k \in activeKeys \cup AddedByFire(t) :
                                 k[1] # tasks'[t].sensor}
             /\ alerts' = alerts
             /\ emitted'[<<"alert_resolved", tasks'[t].sensor>>]
                  = emitted[<<"alert_resolved", tasks'[t].sensor>>]
       /\ (tasks[t].pc = "update_wait" /\ tasks'[t].pc = "update_done")
          => /\ Len(alerts') = Len(alerts)
             /\ \A i \in AlertIds :
                  (alerts[i].sensor # tasks[t].sensor
                     \/ ~NonResolved(alerts[i]))
                  => alerts'[i] = alerts[i]
             /\ tasks'[t].res.n
                  = Cardinality({i \in AlertIds : alerts'[i] # alerts[i]})
             /\ activeKeys' = activeKeys
             /\ emitted' = emitted
       /\ (tasks[t].pc = "update_done"
             /\ tasks'[t].pc \notin {"update_done", "idle"})
          => /\ emitted'[<<"alert_resolved", tasks[t].sensor>>]
                  = emitted[<<"alert_resolved", tasks[t].sensor>>]
                      + (IF tasks[t].res.n > 0 THEN 1 ELSE 0)
             /\ alerts' = alerts
       /\ \A s \in Sensors :
            emitted'[<<"alert_resolved", s>>] # emitted[<<"alert_resolved", s>>]
            => \E u \in Procs : /\ tasks[u].pc = "update_done"
                                /\ tasks[u].sensor = s
                                /\ tasks[u].res.n > 0]_vars

C7_Witness ==
  \E t \in Procs :
    /\ tasks[t].pc = "update_done"
    /\ tasks[t].res.n > 0
    /\ \E k \in activeKeys :
         k[1] # tasks[t].sensor /\ NonResolvedOf(k) # {}

\* The calls processTelemetryAlerts makes for a reading when nothing fails
ExpectedCalls(p) ==
  [i \in 1..Len(THRESHOLD_RULES) |->
     <<IF Check(THRESHOLD_RULES[i].sensor, p) THEN "fire" ELSE "clear",
       THRESHOLD_RULES[i].sensor>>]

\* C8: for every accepted reading, absent or null fields included,
\* processTelemetryAlerts calls createAlert or resolveAlertsForSensor once
\* for each of the four rules, in order, unless a storage operation fails.
C8_EveryRuleFiresOrClears ==
  \A t \in Procs :
    (Telemetry(t) /\ tasks[t].pc = "done" /\ ~tasks[t].storeErr)
    => tasks[t].calls = ExpectedCalls(tasks[t].payload)

\* C9: an error thrown while a packet is evaluated is caught: no error
\* escapes, the packet's live_telemetry is still broadcast, and the packets
\* that arrive afterwards are persisted, evaluated and broadcast.
C9_EvaluateErrorsContained ==
  /\ ~crashed
  /\ \A t \in Procs :
       Telemetry(t) =>
         /\ tasks[t].err => (tasks[t].pc = "done" /\ tasks[t].live)
         /\ (tasks[t].afterErr /\ tasks[t].pc = "done")
            => /\ tasks[t].save \in {"ok", "failed", "invalid"}
               /\ tasks[t].evalInvoked
               /\ tasks[t].live

C9_Witness ==
  \E t \in Procs :
    /\ Telemetry(t) /\ tasks[t].afterErr /\ tasks[t].pc = "done"
    /\ tasks[t].save = "ok" /\ tasks[t].live
    /\ Len(tasks[t].calls) = Len(THRESHOLD_RULES)

RejectedTelemetry(msg, clock) ==
  /\ msg.topic = TOPIC_TELEMETRY
  /\ (~msg.body.json \/ ~validateTelemetry(msg.body.value, clock).valid)

\* C11: a telemetry message that is malformed JSON or that the validator
\* rejects starts no handler (so nothing is saved or evaluated for it),
\* stores no reading, changes no alert record and no index key and
\* broadcasts nothing.
C11_RejectedTelemetryHasNoEffect ==
  [][(delivered' # delivered /\ RejectedTelemetry(routed', now))
     => /\ tasks' = tasks
        /\ systemLogs' = systemLogs
        /\ alerts' = alerts
        /\ activeKeys' = activeKeys
        /\ emitted' = emitted]_vars

C11_Witness ==
  /\ RejectedTelemetry(routed, now)
  /\ routed.body.json
  /\ routed.body.value.shape = "object"
  /\ routed.body.value.timestamp.t = "num"
  /\ \E t \in Procs : Telemetry(t) /\ tasks[t].pc = "save_wait"

\* C12: with the store reachable, every accepted reading whose save has
\* completed is in the SystemLog collection, partial readings included.
C12_AcceptedReadingStored ==
  \A t \in Procs :
    (Telemetry(t) /\ tasks[t].save \in {"ok", "invalid"})
    => tasks[t].payload.timestamp.v \in systemLogs

Watchdog(t) == tasks[t].kind = "watchdog"

C14_OfflineAlertOnceThenCleared ==
  /\ (epoch[DeviceKey].on /\ epoch[DeviceKey].n >= 1)
     => /\ Cardinality(RecordsOf(DeviceKey)) = epoch[DeviceKey].recs + 1
        /\ Cardinality(NonResolvedOf(DeviceKey)) = 1
        /\ emitted[<<"system_alert", "device">>] = epoch[DeviceKey].ems + 1
  /\ \A t \in Procs :
       (/\ Watchdog(t) /\ tasks[t].pc = "done" /\ ~tasks[t].err
        /\ \E x \in systemLogs : now - x <= OFFLINE_THRESHOLD_MS)
       => /\ tasks[t].calls = << <<"clear", "device">> >>
          /\ NonResolvedOfSensor("device") = {}
          /\ DeviceKey \notin activeKeys
          /\ emitted[<<"alert_resolved", "device">>]
               = Cardinality(RecordsOf(DeviceKey))

C14_Witness ==
  \E t \in Procs :
    /\ Watchdog(t) /\ tasks[t].pc = "done" /\ ~tasks[t].err
    /\ tasks[t].calls = << <<"clear", "device">> >>
    /\ \E i \in AlertIds : alerts[i].sensor = "device"
                           /\ alerts[i].status = "resolved"
    /\ emitted[<<"system_alert", "device">>] = 1
    /\ emitted[<<"alert_resolved", "device">>] = 1

\* C15: a storage error during a tick ends that tick inside its catch and
\* never leaves checkDeviceOffline; a tick that starts after an error was
\* caught still reads the latest reading and, when its read finds one, still
\* calls createAlert(device, critical) for an age above 60000 ms and
\* resolveAlertsForSensor(device) otherwise.
C15_WatchdogErrorsSwallowed ==
  /\ ~crashed
  /\ \A t \in Procs :
       Watchdog(t) =>
         /\ tasks[t].err => tasks[t].pc = "done"
         /\ (tasks[t].afterErr /\ tasks[t].age >= 0)
            => tasks[t].calls =
                 << <<IF tasks[t].age > OFFLINE_THRESHOLD_MS
                        THEN "fire" ELSE "clear", "device">> >>
         /\ (tasks[t].afterErr /\ tasks[t].pc = "done" /\ ~tasks[t].err
               /\ systemLogs # {})
            => tasks[t].age >= 0

C15_Witness ==
  \E t \in Procs :
    /\ Watchdog(t) /\ tasks[t].afterErr /\ tasks[t].pc = "done"
    /\ ~tasks[t].err
    /\ tasks[t].calls = << <<"fire", "device">> >>
    /\ NonResolvedOf(DeviceKey) # {}
    /\ emitted[<<"system_alert", "device">>] = 1

\* C16: when io.emit throws while a message is handled, the error is caught
\* inside that message's unit of work: no error and no rejected promise
\* leaves the message handler.
C16_EmitFailureContained == ~crashed

\* A step in which the router receives a message of the command topic while
\* the fan-out channel works
CommandArrives == delivered' # delivered /\ routed'.topic = TOPIC_COMMAND /\ ioUp

\* The parts of the state a command message must leave alone
CommandFrame ==
  /\ tasks' = tasks
  /\ systemLogs' = systemLogs
  /\ alerts' = alerts
  /\ activeKeys' = activeKeys

PumpTags == {<<"pump_command", c>> : c \in CommandTexts}

\* C18: the pump route only publishes: the step in which its publish
\* succeeds changes nothing but the broker's queue; a pump_command count
\* changes only in a step in which the router receives a command-topic
\* message carrying that token, and then by exactly one; and the echo of a
\* published command is such a step.
C18_PumpCommandOnlyFromBroker ==
  [][/\ (published' # published /\ Len(published') > Len(published))
        => /\ emitted' = emitted
           /\ delivered' = delivered
           /\ tasks' = tasks
     /\ \A tag \in PumpTags :
          emitted'[tag] # emitted[tag]
          => /\ delivered' # delivered
             /\ routed'.topic = TOPIC_COMMAND
             /\ routed'.body.text = tag[2]
             /\ emitted' = Emit(emitted, tag)
     /\ (delivered' # delivered /\ routed'.echo /\ ioUp)
        => /\ published # <<>>
           /\ published' = Tail(published)
           /\ emitted' = Emit(emitted, <<"pump_command", Head(published)>>)]_vars

C18_Witness ==
  /\ routed.echo
  /\ routed.topic = TOPIC_COMMAND
  /\ emitted[<<"pump_command", routed.body.text>>] = 1
  /\ delivered = 1
  /\ published = <<>>

\* C19: a message of the alert topic whose body is well-formed JSON emits
\* exactly one system_alert whose payload is the parsed value, whatever the
\* validator would say about it, and starts no handler, stores no reading and
\* changes no alert record and no index key; a message of the alert topic
\* whose body is not JSON, and any message of a topic that is none of the
\* three, emits nothing and changes none of these either.
C19_AlertTopicForwardedUnknownDropped ==
  [][(delivered' # delivered /\ ioUp
        /\ routed'.topic \notin {TOPIC_TELEMETRY, TOPIC_COMMAND})
     => /\ IF routed'.topic = TOPIC_ALERTS /\ routed'.body.json
             THEN emitted' = Emit(emitted, <<"system_alert",
                                            routed'.body.text>>)
             ELSE emitted' = emitted
        /\ tasks' = tasks
        /\ systemLogs' = systemLogs
        /\ alerts' = alerts
        /\ activeKeys' = activeKeys]_vars

C19_Witness ==
  /\ routed.topic = TOPIC_ALERTS
  /\ routed.body.json
  /\ ~validateTelemetry(routed.body.value, now).valid
  /\ emitted[<<"system_alert", routed.body.text>>] = 1
  /\ delivered = 1
  /\ alerts = <<>>

\* C20: the failed_parameters of an accepted packet is the list holding
\* 'ph' iff ph is a number below 6.5 or above 8.5, then 'tds' iff tds is a
\* number above 5000 (an absent or null field is never listed), and status
\* is FAIL iff the list is non-empty, PASS otherwise.
C20_FailedParametersExact ==
  \A t \in Procs :
    Telemetry(t) =>
      LET p == tasks[t].payload
          v == tasks[t].validation
          phFails == p.ph.t = "num" /\ (p.ph.v < 65 \/ p.ph.v > 85)
          tdsFails == p.tds.t = "num" /\ p.tds.v > 50000
      IN /\ v.failed_parameters =
              (IF phFails THEN <<"ph">> ELSE <<>>)
                \o (IF tdsFails THEN <<"tds">> ELSE <<>>)
         /\ v.status = (IF phFails \/ tdsFails THEN "FAIL" ELSE "PASS")

C20_Witness ==
  \E t \in Procs :
    /\ Telemetry(t)
    /\ tasks[t].payload.ph = Num(PH_MAX + 1)
    /\ tasks[t].payload.tds = Num(TDS_MAX + 1)
    /\ tasks[t].validation.failed_parameters = <<"ph", "tds">>
    /\ tasks[t].validation.status = "FAIL"
    /\ delivered = 2

\* A telemetry message with a JSON body arrived in the last step
TelemetryArrived == routed.topic = TOPIC_TELEMETRY /\ routed.body.json

\* handleTelemetry went past the gatekeeper with packet p
Started(p) ==
  \E t \in Procs : /\ tasks[t].kind = "telemetry"
                   /\ tasks[t].pc = "save_wait"
                   /\ tasks[t].payload = p

\* The fields with a hard bound, in the order of the checks, the bound of
\* each and the reason given when it is violated
HardBoundFields ==
  <<"ph", "tds", "temperature", "flow_rate", "salinity", "conductivity",
    "voltage", "current", "power", "valve_status">>

InHardBound(f, x) ==
  CASE f = "ph" -> x.t = "num" /\ 0 <= x.v /\ x.v <= 140
    [] f \in {"tds", "temperature", "flow_rate", "salinity", "conductivity"}
         -> x.t = "num" /\ x.v >= 0
    [] f = "voltage" -> x.t = "num" /\ -500 <= x.v /\ x.v <= 500
    [] f \in {"current", "power"} -> x.t = "num"
    [] f = "valve_status" -> x \in {OPEN, CLOSED}

FieldReason(f) ==
  CASE f = "ph" -> "ph must be a finite number between 0 and 14"
    [] f \in {"tds", "temperature", "flow_rate", "salinity", "conductivity"}
         -> f \o " must be >= 0"
    [] f = "voltage" -> "voltage must be between -50 and 50"
    [] f \in {"current", "power"} -> f \o " must be a valid number"
    [] f = "valve_status" -> "valve_status must be exactly OPEN or CLOSED"

OutOfHardBound(p) ==
  {i \in DOMAIN HardBoundFields :
     LET x == p[HardBoundFields[i]] IN
     Present(x) /\ ~InHardBound(HardBoundFields[i], x)}

FirstOutOfHardBound(p) ==
  HardBoundFields[CHOOSE i \in OutOfHardBound(p) :
                    \A j \in OutOfHardBound(p) : i <= j]

\* C21: with latency = now - timestamp and all other checks passing, the
\* validator accepts exactly when -5000 ms <= latency <= 5000 ms; a packet
\* 5001 ms old is rejected as stale and one 5001 ms ahead as future-dated.
C21_FreshnessBoundary ==
  LET p == routed.body.value
      latency == now - p.timestamp.v
  IN (/\ TelemetryArrived
      /\ p.shape = "object"
      /\ p.timestamp.t = "num"
      /\ OutOfHardBound(p) = {})
     => /\ Started(p) <=> (-5000 <= latency /\ latency <= 5000)
        /\ (latency > 5000)
             => routed.reason = "Timestamp is too old (latency > 5s)"
        /\ (latency < -5000) => routed.reason = "Timestamp is in the future"

C21_Witness ==
  /\ TelemetryArrived
  /\ routed.body.value = Complete(now, 5000)
  /\ Started(routed.body.value)

\* C22: every structured packet that has no timestamp field is rejected with
\* the missing-timestamp reason, whatever its other fields contain, and no
\* packet without a timestamp is ever accepted.
C22_MissingTimestampRejected ==
  LET p == routed.body.value IN
  /\ (TelemetryArrived /\ p.shape = "object" /\ p.timestamp = Undef)
       => /\ routed.reason = "Missing required field: timestamp"
          /\ ~Started(p)
  /\ \A t \in Procs :
       tasks[t].kind = "telemetry" => tasks[t].payload.timestamp # Undef

C22_Witness ==
  /\ TelemetryArrived
  /\ routed.body.value.timestamp = Undef
  /\ routed.body.value.valve_status = HALF_OPEN
  /\ routed.reason = "Missing required field: timestamp"

\* The instant of a numeric timestamp is too far from the clock
Stale(p, clock) == clock - p.timestamp.v > 5000
FutureDated(p, clock) == clock - p.timestamp.v < -5000

C24_AcceptedWithinHardBounds ==
  LET p == routed.body.value IN
  /\ \A t \in Procs :
       tasks[t].kind = "telemetry" => OutOfHardBound(tasks[t].payload) = {}
  /\ (/\ TelemetryArrived /\ p.shape = "object" /\ p.timestamp # Undef
      /\ OutOfHardBound(p) # {})
       => /\ ~Started(p)
          /\ \E i \in OutOfHardBound(p) :
               routed.reason = FieldReason(HardBoundFields[i])

C24_Witness ==
  /\ TelemetryArrived
  /\ routed.body.value = With(Complete(now, 0), <<"valve_status", HALF_OPEN>>)
  /\ routed.reason = "valve_status must be exactly OPEN or CLOSED"
  /\ \A t \in Procs : tasks[t].kind # "telemetry"

\* The status changes a record may undergo
Lifecycle ==
  { <<"active", "acknowledged">>, <<"active", "resolved">>,
    <<"acknowledged", "resolved">> }

\* C25: a record's status only ever moves active -> acknowledged, active ->
\* resolved or acknowledged -> resolved (so acknowledge acts on active
\* records only, resolve and the automatic clear on active or acknowledged
\* ones, and a resolved record never changes again), and no step removes a
\* record or changes its sensor or severity.
C25_StatusLifecycle ==
  [][/\ Len(alerts') >= Len(alerts)
     /\ \A i \in AlertIds :
          /\ alerts'[i].sensor = alerts[i].sensor
          /\ alerts'[i].severity = alerts[i].severity
          /\ \/ alerts'[i].status = alerts[i].status
             \/ <<alerts[i].status, alerts'[i].status>> \in Lifecycle]_vars

C25_Witness ==
  \E i, j \in AlertIds :
    /\ alerts[i].status = "resolved"
    /\ alerts[j].status = "acknowledged"
    /\ alerts[i].sensor = alerts[j].sensor

\* The sensors of the threshold rules
RuleSensors == {THRESHOLD_RULES[i].sensor : i \in DOMAIN THRESHOLD_RULES}

\* createAlert was called for the sensor by the invocation in slot t
Fired(t, sensor) ==
  \E i \in DOMAIN tasks[t].calls : tasks[t].calls[i] = <<"fire", sensor>>

\* C26: an accepted packet that omits a rule's sensor field never creates an
\* alert for that sensor and acts as a clear for it: once the packet has
\* been evaluated (handlers one after the other, store reachable), no active
\* or acknowledged alert of that sensor remains.
C26_OmittedFieldClears ==
  \A t \in Procs : \A s \in RuleSensors :
    (Telemetry(t) /\ tasks[t].payload[s] = Undef)
    => /\ ~Fired(t, s)
       /\ tasks[t].pc = "done" => NonResolvedOfSensor(s) = {}

\* The evaluation of the packet in slot t finishes in this step, no storage
\* operation having failed and no error having been thrown
EvaluateFinishes(t) ==
  /\ tasks[t].pc # "done"
  /\ tasks'[t].pc = "done"
  /\ tasks'[t].kind = "telemetry"
  /\ tasks'[t].evalInvoked
  /\ ~tasks'[t].err

\* C27: alerts are not lost: when evaluate finishes for an accepted packet
\* without any storage failure, then for every threshold rule whose
\* predicate is true on the packet the store holds an active or
\* acknowledged record of the rule's (sensor, severity) - also after an
\* operator resolved the previous alert while the condition persisted.
C27_AlertsNotLost ==
  [][\A t \in Procs :
       EvaluateFinishes(t) =>
         \A i \in DOMAIN THRESHOLD_RULES :
           Check(THRESHOLD_RULES[i].sensor, tasks'[t].payload) =>
             \E id \in DOMAIN alerts' :
               /\ alerts'[id].sensor = THRESHOLD_RULES[i].sensor
               /\ alerts'[id].severity = THRESHOLD_RULES[i].severity
               /\ NonResolved(alerts'[id])]_vars

\* createAlert resumes in slot t after a failed Alert.create
CreateFailed(t) ==
  /\ tasks[t].pc = "create_done"
  /\ ~tasks[t].res.ok
  /\ tasks'[t].pc # "create_done"

\* C28: when the record creation inside createAlert fails, the call leaves
\* the index as it was before the call: the key of the pair is not in it.
C28_FailedCreateLeavesNoKey ==
  [][\A t \in Procs :
       CreateFailed(t) =>
         <<tasks[t].sensor, tasks[t].severity>> \notin activeKeys']_vars

\* C29: as long as accepted telemetry packets keep arriving less than 60 s
\* apart, no watchdog tick creates a device/critical alert - also when
\* persisting those packets fails (the clock of this specification advances
\* only while packets keep arriving).
C29_NoOfflineAlertWhileArriving ==
  \A id \in AlertIds : alerts[id].sensor # "device"

\* No active or acknowledged ph record and no ph key in the index
NoAlertState(sensor) ==
  /\ NonResolvedOfSensor(sensor) = {}
  /\ \A k \in activeKeys : k[1] # sensor

\* Two packets or more have been dispatched and every handler has finished
BothFinished == delivered >= 2 /\ Quiescent

DispatchedAfterFire(sensor) ==
  /\ TelemetryArrived /\ routed.reason = ""
  /\ delivered >= 2
  /\ \A u \in Procs :
       (/\ Telemetry(u) /\ InFlight(u)
        /\ tasks[u].payload # routed.body.value
        /\ Check(sensor, tasks[u].payload))
       => \E i \in DOMAIN CompletedCalls(u) :
            CompletedCalls(u)[i] = <<"fire", sensor>>

=============================================================================
